---- MODULE Spec2Model ----
(***************************************************************************)
(* DelayedFeatureTransformer (evalml): the constructor, the no-op fit and  *)
(* transform, with the pandas operations transform is built from           *)
(* (DataFrame.empty, Series.shift, DataFrame.assign and the column         *)
(* assignment behind it) over small tables with string column names.       *)
(***************************************************************************)
EXTENDS Integers, Sequences, FiniteSets, TLC

\* ------------------------------------------------------------------ bounds
MaxRows == 2
MaxDelay == 2

\* The missing-value marker (NaN) of a shifted column; cell values are 1, 2.
NA == 0
Vals == {1, 2}
\* Column names of the input tables; a_delay_1 and target coincide with names
\* that transform generates.
ColNames == {"a", "a_delay_1", "target"}
ColumnLists == {<<>>, <<"a">>, <<"a_delay_1">>, <<"target">>,
                <<"a", "a_delay_1">>, <<"a", "target">>, <<"a_delay_1", "target">>}
Delays == (0 - 1)..MaxDelay
Gaps == {0, 1}
Seeds == {0, 1}

\* ------------------------------------------------------------ pandas values
None == [kind |-> "none"]
DataFrame(n, columns) == [kind |-> "df", nrows |-> n, cols |-> columns]
Series(values) == [kind |-> "series", vals |-> values]
EmptyDataFrame == DataFrame(0, <<>>)

\* woodwork containers around a DataFrame or a Series
DataTable(df) == [kind |-> "ww_table", df |-> df]
DataColumn(s) == [kind |-> "ww_column", series |-> s]

\* _convert_to_woodwork_structure: wraps pandas data, leaves woodwork data alone
_convert_to_woodwork_structure(data) ==
    IF data.kind = "df" THEN DataTable(data)
    ELSE IF data.kind = "series" THEN DataColumn(data)
    ELSE data

to_dataframe(table) == table.df
to_series(column) == column.series

\* _convert_woodwork_types_wrapper: changes the dtypes of the columns, not the
\* row count, the names or the values
_convert_woodwork_types_wrapper(pd_data) ==
    IF pd_data.kind = "df"
    THEN DataFrame(pd_data.nrows,
                   [i \in 1..Len(pd_data.cols) |->
                       [name |-> pd_data.cols[i].name, vals |-> pd_data.cols[i].vals]])
    ELSE Series([i \in 1..Len(pd_data.vals) |-> pd_data.vals[i]])

\* DataFrame.empty: any axis of length 0
Empty(df) == df.nrows = 0 \/ Len(df.cols) = 0

\* iteration over a DataFrame yields its column names
Columns(df) == [i \in 1..Len(df.cols) |-> df.cols[i].name]
ColumnSet(df) == {df.cols[i].name : i \in 1..Len(df.cols)}
HasColumn(df, name) == name \in ColumnSet(df)

\* X[col]
GetItem(df, name) ==
    Series(df.cols[CHOOSE i \in 1..Len(df.cols) : df.cols[i].name = name].vals)

\* Series.shift(t), t >= 0: row i takes the value of row i - t, the first t
\* rows the missing marker; the length is kept
Shift(s, t) ==
    Series([i \in 1..Len(s.vals) |-> IF i <= t THEN NA ELSE s.vals[i - t]])

\* a Series aligned to a RangeIndex of n rows: rows beyond its end are missing
Reindex(values, n) ==
    [i \in 1..n |-> IF i <= Len(values) THEN values[i] ELSE NA]

\* a frame that keeps its empty index whatever is assigned to it
KeepIndex(df, value) == df

\* DataFrame._ensure_valid_index: a frame without rows takes the index of the
\* first non-empty value assigned to it; the columns it has become all-missing
EnsureValidIndex(df, value) ==
    IF df.nrows = 0 /\ Len(value.vals) > 0
    THEN DataFrame(Len(value.vals),
                   [i \in 1..Len(df.cols) |->
                       [name |-> df.cols[i].name,
                        vals |-> Reindex(df.cols[i].vals, Len(value.vals))]])
    ELSE df

\* data[key] = value: an existing column is replaced in place, a new one appended
SetItem(df, key, value) ==
    LET d == EnsureValidIndex(df, value)
        c == [name |-> key, vals |-> Reindex(value.vals, d.nrows)]
    IN  IF HasColumn(d, key)
        THEN DataFrame(d.nrows,
                       [i \in 1..Len(d.cols) |->
                           IF d.cols[i].name = key THEN c ELSE d.cols[i]])
        ELSE DataFrame(d.nrows, Append(d.cols, c))

\* DataFrame.assign(**kwargs): a copy with the items set in keyword order
RECURSIVE Assign(_, _)
Assign(df, kwargs) ==
    IF kwargs = <<>> THEN df
    ELSE Assign(SetItem(df, Head(kwargs).key, Head(kwargs).value), Tail(kwargs))

\* range with its upper end included
PyRangeInclusive(lo, hi) == [i \in 1..(hi - lo + 1) |-> lo + i - 1]

\* range(lo, hi)
PyRange(lo, hi) == [i \in 1..(hi - lo) |-> lo + i - 1]

\* f"{col}_delay_{t}" and f"target_delay_{t}"
FeatureDelayName(col, t) == col \o "_delay_" \o ToString(t)
TargetDelayName(t) == "target_delay_" \o ToString(t)

\* ------------------------------------------------------------ the component
\* a constructor without the rule for gap = 0
ConstructorWithoutGapRule(max_delay, delay_features, delay_target, gap, random_state) ==
    [max_delay |-> max_delay,
     delay_features |-> delay_features,
     delay_target |-> delay_target,
     start_delay_for_target |-> 0,
     parameters |-> [max_delay |-> max_delay, delay_target |-> delay_target,
                     delay_features |-> delay_features, gap |-> gap],
     random_state |-> random_state]

\* __init__
DelayedFeatureTransformer(max_delay, delay_features, delay_target, gap, random_state) ==
    [max_delay |-> max_delay,
     delay_features |-> delay_features,
     delay_target |-> delay_target,
     start_delay_for_target |-> IF gap = 0 THEN 1 ELSE 0,
     parameters |-> [max_delay |-> max_delay, delay_target |-> delay_target,
                     delay_features |-> delay_features, gap |-> gap],
     random_state |-> random_state]

\* {f"{col}_delay_{t}": X[col].shift(t) for t in range(1, max_delay + 1) for col in X}
FeatureDelayColumns(self, X) ==
    LET ts == PyRange(1, self.max_delay + 1)
        cs == Columns(X)
    IN  [k \in 1..(Len(ts) * Len(cs)) |->
            LET t == ts[((k - 1) \div Len(cs)) + 1]
                col == cs[((k - 1) % Len(cs)) + 1]
            IN  [key |-> FeatureDelayName(col, t), value |-> Shift(GetItem(X, col), t)]]

\* target delays that stop one short of max_delay
TargetDelayColumnsShort(self, y) ==
    LET ts == PyRange(self.start_delay_for_target, self.max_delay)
    IN  [k \in 1..Len(ts) |->
            [key |-> TargetDelayName(ts[k]), value |-> Shift(y, ts[k])]]

\* {f"target_delay_{t}": y.shift(t) for t in range(start_delay_for_target, max_delay + 1)}
TargetDelayColumns(self, y) ==
    LET ts == PyRange(self.start_delay_for_target, self.max_delay + 1)
    IN  [k \in 1..Len(ts) |->
            [key |-> TargetDelayName(ts[k]), value |-> Shift(y, ts[k])]]

\* feature delays whatever delay_features says
DelayFeaturesUngated(self, X) ==
    IF ~Empty(X) THEN Assign(X, FeatureDelayColumns(self, X)) ELSE X

\* feature delays also of an empty table
DelayFeaturesOfEmpty(self, X) ==
    IF self.delay_features THEN Assign(X, FeatureDelayColumns(self, X)) ELSE X

\* if self.delay_features and not X.empty: X = X.assign(...)
DelayFeatures(self, X) ==
    IF self.delay_features /\ ~Empty(X)
    THEN Assign(X, FeatureDelayColumns(self, X))
    ELSE X

\* if self.delay_target and y is not None: X = X.assign(...)
DelayTarget(self, X, y) ==
    IF self.delay_target /\ y.kind # "none"
    THEN Assign(X, TargetDelayColumns(self, y))
    ELSE X

\* the value transform returns
TransformReturn(self, X, y) ==
    LET X0 == IF X.kind = "none" THEN EmptyDataFrame ELSE X
        X1 == _convert_woodwork_types_wrapper(to_dataframe(_convert_to_woodwork_structure(X0)))
        y1 == IF y.kind # "none"
              THEN _convert_woodwork_types_wrapper(to_series(_convert_to_woodwork_structure(y)))
              ELSE y
        X2 == DelayFeatures(self, X1)
        X3 == DelayTarget(self, X2, y1)
    IN  _convert_to_woodwork_structure(X3)

\* a transform that writes the delayed columns into the caller's table
transformInPlace(self, X, y) ==
    [ret |-> TransformReturn(self, X, y), self |-> self,
     X |-> IF X.kind = "none" THEN X ELSE to_dataframe(TransformReturn(self, X, y)),
     y |-> y]

\* a fit that resets the first target delay
fitResetsStart(self, X, y) ==
    [ret |-> None, self |-> [self EXCEPT !.start_delay_for_target = 0], X |-> X, y |-> y]

\* A call is its return value and what it leaves of the transformer and of the
\* caller's two argument objects.
transform(self, X, y) ==
    [ret |-> TransformReturn(self, X, y), self |-> self, X |-> X, y |-> y]

fit(self, X, y) ==
    [ret |-> None, self |-> self, X |-> X, y |-> y]

\* ------------------------------------------------------------------- inputs
TablesOf(names, n) ==
    {DataFrame(n, [i \in 1..Len(names) |-> [name |-> names[i], vals |-> v[i]]]) :
        v \in [1..Len(names) -> [1..n -> Vals]]}
Tables == UNION {TablesOf(names, n) : names \in ColumnLists, n \in 0..MaxRows}
SeriesOf(n) == {Series(v) : v \in [1..n -> Vals]}

\* the target is aligned with the rows of X; without rows in X it has any length
TargetsFor(table) ==
    IF table.kind = "none" \/ table.nrows = 0
    THEN {None} \cup UNION {SeriesOf(n) : n \in 0..MaxRows}
    ELSE {None} \cup SeriesOf(table.nrows)

Transformers ==
    {DelayedFeatureTransformer(m, f, g, gap, r) :
        m \in Delays, f \in BOOLEAN, g \in BOOLEAN, gap \in Gaps, r \in Seeds}

\* ---------------------------------------------------------------- the state
\* self: the transformer; X, y: the caller's table and target; out: what the
\* latest call returned; op: the latest call; fitted: fit has been called
VARIABLES self, X, y, out, op, fitted
vars == <<self, X, y, out, op, fitted>>

Init ==
    /\ self \in Transformers
    /\ X \in {None} \cup Tables
    /\ y \in TargetsFor(X)
    /\ out = None
    /\ op = "idle"
    /\ fitted = FALSE

Fit ==
    LET r == fit(self, X, y)
    IN  /\ self' = r.self /\ X' = r.X /\ y' = r.y /\ out' = r.ret
        /\ op' = "fit"
        /\ fitted' = TRUE

Transform ==
    LET r == transform(self, X, y)
    IN  /\ self' = r.self /\ X' = r.X /\ y' = r.y /\ out' = r.ret
        /\ op' = "transform"
        /\ UNCHANGED fitted

\* the caller prepares the arguments of the next call: without a table, or
\* without a target
DropTable ==
    /\ X.kind # "none"
    /\ X' = None /\ out' = None /\ op' = "idle"
    /\ UNCHANGED <<self, y, fitted>>

DropTarget ==
    /\ y.kind # "none"
    /\ y' = None /\ out' = None /\ op' = "idle"
    /\ UNCHANGED <<self, X, fitted>>

Next == Fit \/ Transform \/ DropTable \/ DropTarget

Spec == Init /\ [][Next]_vars

\* ------------------------------------------------------------------- claims
\* the table of the latest transform, and the table its X stands for
Out == to_dataframe(out)
In == IF X.kind = "none" THEN EmptyDataFrame ELSE X
Values(df, name) == GetItem(df, name).vals
Transformed == op = "transform"
TargetGiven == y.kind # "none"
Gap == self.parameters.gap
MaxDelayOf == self.parameters.max_delay
\* the value a delay of t puts at row i (rows count from 1) of a column v
Delayed(v, t, i) == IF i - 1 >= t THEN v[i - t] ELSE NA
\* the delays and names the two steps are to generate
FirstTargetDelay == IF Gap = 0 THEN 1 ELSE 0
TargetDelays ==
    IF self.parameters.delay_target /\ TargetGiven
    THEN {t \in 0..(MaxDelay + 1) : FirstTargetDelay <= t /\ t <= MaxDelayOf}
    ELSE {}
FeatureDelays ==
    IF self.parameters.delay_features /\ In.nrows > 0 /\ Len(In.cols) > 0
    THEN {t \in 0..(MaxDelay + 1) : 1 <= t /\ t <= MaxDelayOf}
    ELSE {}
TargetNames == {TargetDelayName(t) : t \in TargetDelays}
FeatureNames == {FeatureDelayName(c, t) : c \in ColumnSet(In), t \in FeatureDelays}
\* column name of Out holds column v delayed by t
HoldsDelayed(name, v, t) ==
    /\ HasColumn(Out, name)
    /\ Len(Values(Out, name)) = Len(v)
    /\ \A i \in 1..Len(v) : Values(Out, name)[i] = Delayed(v, t, i)

\* C1: with delay_features and a non-empty X, every original column c and
\* every t in 1..max_delay has an output column c_delay_t that holds c delayed
\* by t (missing in the first t rows), and no feature delay outside
\* 1..max_delay is generated.
C1_FeatureDelays ==
    (Transformed /\ self.parameters.delay_features /\ ~Empty(In)) =>
        /\ \A c \in ColumnSet(In) : \A t \in 1..MaxDelayOf :
              HoldsDelayed(FeatureDelayName(c, t), Values(In, c), t)
        /\ \A c \in ColumnSet(In) : \A t \in (0..(MaxDelay + 1)) \ (1..MaxDelayOf) :
              HasColumn(Out, FeatureDelayName(c, t)) =>
                  FeatureDelayName(c, t) \in ColumnSet(In) \cup TargetNames

\* C1 holds of every column whose delayed names no target delay takes.
C1_FeatureDelaysUnlessTargetNamed ==
    (Transformed /\ self.parameters.delay_features /\ ~Empty(In)) =>
        \A c \in ColumnSet(In) : \A t \in 1..MaxDelayOf :
            FeatureDelayName(c, t) \notin TargetNames =>
                HoldsDelayed(FeatureDelayName(c, t), Values(In, c), t)

\* C2: with delay_target and a target y, the target-delay columns of the
\* output are exactly target_delay_t for start <= t <= max_delay, start being
\* 1 for gap = 0 and 0 otherwise, and each holds y delayed by t.
C2_TargetDelays ==
    (Transformed /\ self.parameters.delay_target /\ TargetGiven) =>
        \A t \in 0..(MaxDelay + 1) :
            IF FirstTargetDelay <= t /\ t <= MaxDelayOf
            THEN HoldsDelayed(TargetDelayName(t), y.vals, t)
            ELSE ~HasColumn(Out, TargetDelayName(t))
C2_Witness ==
    /\ Transformed /\ self.parameters.delay_target /\ TargetGiven
    /\ Gap > 0 /\ MaxDelayOf >= 1 /\ Len(y.vals) = MaxRows
    /\ HasColumn(Out, TargetDelayName(0)) /\ HasColumn(Out, TargetDelayName(MaxDelayOf))

\* C3: a transformer constructed with gap = 0 never has a target_delay_0
\* column in its output; the first target delay it generates is 1.
C3_NoTargetLeak ==
    (Transformed /\ Gap = 0) =>
        /\ ~HasColumn(Out, TargetDelayName(0))
        /\ (self.parameters.delay_target /\ TargetGiven /\ MaxDelayOf >= 1) =>
              HasColumn(Out, TargetDelayName(1))
C3_Witness ==
    /\ Transformed /\ Gap = 0 /\ self.parameters.delay_target /\ TargetGiven
    /\ MaxDelayOf >= 1 /\ Len(y.vals) > 0
    /\ HasColumn(Out, TargetDelayName(1))

\* rows keep their order: an original column that no generated column
\* replaces holds the same value at the same row
RowsInOrder ==
    In.nrows > 0 =>
        \A c \in ColumnSet(In) \ (FeatureNames \cup TargetNames) :
            HasColumn(Out, c) /\ Values(Out, c) = Values(In, c)

\* C4 as stated: the output has as many rows as X (an absent X has none), in
\* the original order.
C4_RowCountOfInput ==
    Transformed => (Out.nrows = In.nrows /\ RowsInOrder)

\* C4 amended: the output has as many rows as X when X has rows; when X is
\* absent or has no rows it has as many rows as y if a target-delay column is
\* generated, and none otherwise; rows keep their order.
C4_RowCount ==
    Transformed =>
        /\ Out.nrows = IF In.nrows > 0 THEN In.nrows
                       ELSE IF TargetDelays # {} THEN Len(y.vals) ELSE 0
        /\ RowsInOrder
C4_Witness ==
    /\ Transformed /\ X.kind = "none" /\ TargetDelays # {}
    /\ Len(y.vals) = MaxRows /\ Out.nrows = MaxRows

C6_EmptyInput ==
    (Transformed /\ Empty(In)) =>
        /\ ColumnSet(Out) = ColumnSet(In) \cup TargetNames
        /\ \A t \in TargetDelays : HoldsDelayed(TargetDelayName(t), y.vals, t)
        /\ (X.kind = "none" /\ TargetDelays = {}) => Out = EmptyDataFrame
C6_Witness ==
    /\ Transformed /\ X.kind = "df" /\ X.nrows = 0 /\ Len(X.cols) > 0
    /\ self.parameters.delay_features /\ MaxDelayOf >= 1
    /\ TargetDelays # {} /\ Len(y.vals) > 0
    /\ HasColumn(Out, TargetDelayName(1))

\* C7: transform leaves the caller's X and y as they were, and its result is
\* the same whatever random_state the transformer was given.
C7_Pure ==
    /\ [][op' = "transform" => (X' = X /\ y' = y)]_vars
    /\ [](Transformed =>
            \A r \in Seeds :
                out = transform([self EXCEPT !.random_state = r], X, y).ret)
C7_Witness ==
    /\ Transformed /\ X.kind = "df" /\ ~Empty(X) /\ Out # X
    /\ self.random_state = 1

\* C8: a negative max_delay is accepted and generates no column, whatever
\* the gap: the output holds exactly the original columns of X.
C8_NegativeMaxDelay ==
    (Transformed /\ MaxDelayOf < 0) => Out = In
C8_Witness ==
    /\ Transformed /\ MaxDelayOf < 0 /\ Gap > 0
    /\ self.parameters.delay_features /\ self.parameters.delay_target
    /\ TargetGiven /\ ~Empty(In)

\* C9: every original column of X is in the output under its name with its
\* values at every row, also when its name is one transform generates.
C9_OriginalColumnsKept ==
    Transformed =>
        \A c \in ColumnSet(In) :
            /\ HasColumn(Out, c)
            /\ \A i \in 1..In.nrows : Values(Out, c)[i] = Values(In, c)[i]

\* C10: fit changes nothing: through any calls the transformer keeps the
\* fields it was constructed with, and transform returns what a freshly
\* constructed transformer of the same configuration returns.
Fresh ==
    DelayedFeatureTransformer(self.parameters.max_delay, self.parameters.delay_features,
                              self.parameters.delay_target, self.parameters.gap,
                              self.random_state)
C10_Stateless ==
    /\ [][self' = self]_vars
    /\ [](self = Fresh)
    /\ [](Transformed => out = transform(Fresh, X, y).ret)
    /\ [](op = "fit" => out = None)
C10_Witness ==
    /\ Transformed /\ fitted /\ ~Empty(In) /\ TargetGiven
    /\ Gap > 0 /\ MaxDelayOf >= 1 /\ self.delay_target
    /\ HasColumn(Out, TargetDelayName(0))

====
